---- MODULE Spec2Model ----
(***************************************************************************)
(* Model of the Maximum Flow Blocker solver (MFBPwithSAT, solve_mfbp) and  *)
(* of the input parser that feeds it.                                      *)
(*                                                                         *)
(* The SAT solver (Glucose3) and the pseudo-Boolean encoder (pypblib) are  *)
(* external: the solver is modelled as an oracle that decides the clauses  *)
(* loaded in it and may return any satisfying assignment; one call of the  *)
(* encoder is modelled as one block of the formula whose meaning is the    *)
(* linear inequality it encodes and which owns a range of auxiliary ids.   *)
(***************************************************************************)
EXTENDS Integers, Sequences, FiniteSets, TLC

VARIABLES
    files,              \* the input folder: node.csv, link.csv rows, service.txt
    nodes,              \* self.nodes
    links,              \* self.links (list of (head, tail))
    capacities,         \* self.capacities
    blocker_costs,      \* self.blocker_costs
    source,             \* self.source
    destination,        \* self.destination
    target_flow,        \* self.target_flow
    block_vars,         \* self.block_vars
    mc_vars,            \* self.mc_vars
    source_vars,        \* self.source_vars
    duality_vars,       \* self.duality_vars
    next_aux_var,       \* self.next_aux_var
    cnf,                \* self.cnf.clauses
    solver,             \* the clauses loaded in self.solver
    solution,           \* self.solution
    c_min,              \* local c_min of solve_with_binary_search
    c_max,              \* local c_max
    c_mid,              \* local c_mid (budget of the last query built)
    fixed_clause_count, \* local fixed_clause_count
    answer,             \* what the last solver.solve() returned
    queries,            \* number of solver.solve() calls of the current solve
    result,             \* what solve_with_binary_search returned / raised
    history,            \* outcomes of the solves of solve_mfbp already finished
    pc                  \* position of the control flow

vars == <<files, nodes, links, capacities, blocker_costs, source, destination,
          target_flow, block_vars, mc_vars, source_vars, duality_vars,
          next_aux_var, cnf, solver, solution, c_min, c_max, c_mid,
          fixed_clause_count, answer, queries, result, history, pc>>

-----------------------------------------------------------------------------
(* Bounds of the model *)

\* largest blocker cost of a generated link
MaxCost == 2

\* numbers of links of the generated networks
LinkCounts == {0, 1, 2}

\* node identifiers of the generated networks
NodeList == <<1, 2, 3>>
\* capacities of the generated links
Capacities == {0, 1}
\* target flows of the generated instances
TargetFlows == {0, 1}

-----------------------------------------------------------------------------
(* Python values *)

\* None for a node id (self.source, self.destination before assignment)
NoNode == 0
\* None for self.target_flow
NoTarget == -1
\* an empty dict
EmptyDict == [k \in {} |-> 0]
\* self.solution: None, or the model the solver returned.  `budget' is a
\* history field: the budget of the query that returned the model.
NoSolution == [isNone |-> TRUE, model |-> {}, budget |-> 0]

Range(s) == {s[i] : i \in DOMAIN s}

Abs(x) == IF x < 0 THEN -x ELSE x

\* dict update: the entries of new replace those of old
DictUpdate(old, new) ==
    [k \in (DOMAIN old) \cup (DOMAIN new) |->
        IF k \in DOMAIN new THEN new[k] ELSE old[k]]

\* index of the last occurrence of k in the list s
LastIndex(s, k) == CHOOSE i \in DOMAIN s :
                      /\ s[i] = k
                      /\ \A j \in DOMAIN s : s[j] = k => j <= i

RECURSIVE SumSeq(_)
SumSeq(s) == IF s = <<>> THEN 0 ELSE Head(s) + SumSeq(Tail(s))

RECURSIVE SumDict(_, _)
\* sum(d.values()) restricted to the keys in K
SumDict(d, K) == IF K = {} THEN 0
                 ELSE LET k == CHOOSE x \in K : TRUE
                      IN d[k] + SumDict(d, K \ {k})


-----------------------------------------------------------------------------
(* The Formula: self.cnf.clauses *)

\* a clause appended by the solver's own code: a list of signed variable ids
Clause(lits) ==
    [kind |-> "clause", lits |-> lits, weights |-> <<>>, bound |-> 0,
     first_aux |-> 0, last_aux |-> 0]

\* Number of auxiliary ids one Pb2cnf.encode call takes from its AuxVarManager.
\* The encoder is deterministic; a constraint that every assignment satisfies
\* or that none satisfies needs no auxiliary variable, any other one is given
\* one per literal.
EncoderAuxCount(weights, bound) ==
    LET pos == SumSeq([i \in DOMAIN weights |->
                          IF weights[i] > 0 THEN weights[i] ELSE 0])
        neg == SumSeq([i \in DOMAIN weights |->
                          IF weights[i] < 0 THEN weights[i] ELSE 0])
    IN IF pos <= bound \/ bound < neg THEN 0 ELSE Len(weights)

\* The clauses one Pb2cnf.encode call leaves in the clause database, kept as
\* one block: SUM weights[i] * lits[i] <= bound, over the auxiliary ids
\* first_aux .. last_aux (last_aux is get_biggest_returned_auxvar()).
PbEncode(lits, weights, bound, first) ==
    [kind |-> "pb", lits |-> lits, weights |-> weights, bound |-> bound,
     first_aux |-> first,
     last_aux |-> first + EncoderAuxCount(weights, bound) - 1]

\* the variables a block of the Formula constrains (auxiliary ids left out)
VarsOf(cl) == {Abs(cl.lits[i]) : i \in DOMAIN cl.lits}

RECURSIVE WeightedSum(_, _, _)
\* the left-hand side of a pseudo-Boolean block under A, over lits[1..n]
WeightedSum(cl, A, n) ==
    IF n = 0 THEN 0
    ELSE WeightedSum(cl, A, n - 1)
         + (IF cl.lits[n] \in A THEN cl.weights[n] ELSE 0)

\* A is the set of variables an assignment makes true
Holds(cl, A) ==
    IF cl.kind = "clause"
    THEN \E i \in DOMAIN cl.lits :
            \/ cl.lits[i] > 0 /\ cl.lits[i] \in A
            \/ cl.lits[i] < 0 /\ (-cl.lits[i]) \notin A
    ELSE WeightedSum(cl, A, Len(cl.lits)) <= cl.bound

\* the blocks of cls (by index) whose variables all lie in V
Within(cls, V) == {i \in DOMAIN cls : VarsOf(cls[i]) \subseteq V}

\* the assignments over the variables V that satisfy every block of cls whose
\* variables all lie in V
Partial(cls, V) ==
    LET inside == Within(cls, V)
    IN {A \in SUBSET V : \A i \in inside : Holds(cls[i], A)}

\* The satisfying assignments of cls over the variables G1, G2 and G3
\* (pairwise disjoint), each given as its set of true variables: every
\* assignment is tried, those that fail a block inside one group first.
Models(cls, G1, G2, G3) ==
    LET across == (DOMAIN cls) \ (Within(cls, G1) \cup Within(cls, G2)
                                     \cup Within(cls, G3))
    IN {A \in {a \cup b \cup c : a \in Partial(cls, G1),
                                 b \in Partial(cls, G2),
                                 c \in Partial(cls, G3)} :
           \A i \in across : Holds(cls[i], A)}

-----------------------------------------------------------------------------
(* MFBPwithSAT: variables and fixed constraints *)

\* the ids handed out without the high-water mark moving
allocate_variables_in_place(nxt, count) == nxt

\* allocate_variables(count): the new high-water mark; the ids handed out
\* are nxt .. nxt + count - 1
allocate_variables(nxt, count) == nxt + count

\* one allocate_variables(1) per element of the list keys, each stored under
\* its key: a key listed twice keeps the id of its last occurrence
AllocateEach(keys, start) ==
    [k \in Range(keys) |-> start + LastIndex(keys, k) - 1]

\* create_variables: block ids, then mc ids, then source-side ids
create_variables(lk, nd, bv, mv, sv, nxt) ==
    LET n1 == allocate_variables(nxt, Len(lk))
        n2 == allocate_variables(n1, Len(lk))
        n3 == allocate_variables(n2, Len(nd))
    IN [block_vars  |-> DictUpdate(bv, AllocateEach(lk, nxt)),
        mc_vars     |-> DictUpdate(mv, AllocateEach(lk, n1)),
        source_vars |-> DictUpdate(sv, AllocateEach(nd, n2)),
        next        |-> n3]

RECURSIVE DualityLoop(_, _, _, _)
\* the loop of lines 59-66 from link i on; st.raised: a KeyError was raised
DualityLoop(i, lk, sv, st) ==
    IF i > Len(lk) \/ st.raised THEN st
    ELSE LET tail == lk[i][2]
         IN IF tail \in DOMAIN st.duality_vars
            THEN DualityLoop(i + 1, lk, sv, st)
            ELSE LET var == st.next
                     dv  == DictUpdate(st.duality_vars, tail :> var)
                     nx  == allocate_variables(st.next, 1)
                 IN IF tail \notin DOMAIN sv
                    THEN [st EXCEPT !.duality_vars = dv, !.next = nx,
                                    !.raised = TRUE]
                    ELSE DualityLoop(i + 1, lk, sv,
                           [cnf |-> st.cnf \o <<Clause(<<sv[tail], var>>),
                                                Clause(<<-sv[tail], -var>>)>>,
                            duality_vars |-> dv, next |-> nx,
                            raised |-> FALSE])

\* the clause of line 71 for one link
LinkClause(mc, block, side_head, dual_tail) ==
    Clause(<<mc, block, side_head, dual_tail>>)

RECURSIVE LinkLoop(_, _, _, _, _, _)
\* the loop of lines 70-71 from link i on
LinkLoop(i, lk, bv, mv, sv, st) ==
    IF i > Len(lk) \/ st.raised THEN st
    ELSE LET head == lk[i][1]
             tail == lk[i][2]
         IN IF head \notin DOMAIN sv
            THEN [st EXCEPT !.raised = TRUE]
            ELSE LinkLoop(i + 1, lk, bv, mv, sv,
                   [st EXCEPT !.cnf = Append(st.cnf,
                       LinkClause(mv[lk[i]], bv[lk[i]], sv[head],
                                  st.duality_vars[tail]))])

\* create_flow_conservation_constraints on the clause list cl, the duality
\* dict dv and the high-water mark nxt
create_flow_conservation_constraints(lk, src, dst, bv, mv, sv, dv, cl, nxt) ==
    LET st0 == [cnf |-> cl, duality_vars |-> dv, next |-> nxt,
                raised |-> FALSE]
    IN IF src \notin DOMAIN sv
       THEN [st0 EXCEPT !.raised = TRUE]
       ELSE IF dst \notin DOMAIN sv
       THEN [st0 EXCEPT !.cnf = Append(cl, Clause(<<sv[src]>>)),
                        !.raised = TRUE]
       ELSE LinkLoop(1, lk, bv, mv, sv,
              DualityLoop(1, lk, sv,
                [st0 EXCEPT !.cnf = cl \o <<Clause(<<sv[src]>>),
                                            Clause(<<-sv[dst]>>)>>]))

\* create_target_flow_constraint: SUM capacity * mc <= target_flow
create_target_flow_constraint(lk, mv, cap, target, nxt) ==
    PbEncode([i \in DOMAIN lk |-> mv[lk[i]]],
             [i \in DOMAIN lk |-> cap[lk[i]]], target, nxt)

\* the budget constraint allowing one unit more than the budget
create_objective_constraint_loose(lk, bv, cost, budget, nxt) ==
    PbEncode([i \in DOMAIN lk |-> bv[lk[i]]],
             [i \in DOMAIN lk |-> cost[lk[i]]], budget + 1, nxt)

\* create_objective_constraint(budget): SUM blocker_cost * block <= budget
create_objective_constraint(lk, bv, cost, budget, nxt) ==
    PbEncode([i \in DOMAIN lk |-> bv[lk[i]]],
             [i \in DOMAIN lk |-> cost[lk[i]]], budget, nxt)

\* the high-water mark set to the id the encoder reported itself
AfterEncoderReported(block) == block.last_aux

\* line 97 / line 123: the high-water mark after an encoder call
AfterEncoder(block) == block.last_aux + 1

-----------------------------------------------------------------------------
(* Inputs *)

\* the directed links the generated networks are made of
NodePairs == {p \in Range(NodeList) \X Range(NodeList) : p[1] # p[2]}

\* position of a link in the order the generated link lists are written in
PairRank(p) == p[1] * (Len(NodeList) + 1) + p[2]

\* lists of links, no (head, tail) pair twice, in the order of PairRank
LinkLists ==
    UNION {{l \in [1..n -> NodePairs] :
               \A i, j \in 1..n : i < j => PairRank(l[i]) < PairRank(l[j])} :
           n \in LinkCounts}

\* the (source, destination) pairs of the generated instances
ServicePairs == {<<1, 2>>}

\* the instances generated within the bounds
GeneratedInstances ==
    UNION {
      {[nodes |-> NodeList, links |-> l, capacities |-> cap,
        blocker_costs |-> cost, source |-> sd[1], destination |-> sd[2],
        target_flow |-> t] :
          cap \in [Range(l) -> Capacities],
          cost \in [Range(l) -> 0..MaxCost],
          sd \in ServicePairs, t \in TargetFlows} : l \in LinkLists}

\* the diamond network: two parallel two-link paths from 1 to 4
DiamondLinks == <<<<1, 2>>, <<1, 3>>, <<2, 4>>, <<3, 4>>>>
Diamond ==
    [nodes |-> <<1, 2, 3, 4>>, links |-> DiamondLinks,
     capacities |-> [l \in Range(DiamondLinks) |-> 5],
     blocker_costs |-> [l \in Range(DiamondLinks) |-> 1],
     source |-> 1, destination |-> 4, target_flow |-> 0]

\* the single bottleneck: one link from source to destination
Bottleneck ==
    [nodes |-> <<1, 2>>, links |-> <<<<1, 2>>>>,
     capacities |-> [l \in {<<1, 2>>} |-> 10],
     blocker_costs |-> [l \in {<<1, 2>>} |-> 3],
     source |-> 1, destination |-> 2, target_flow |-> 0]

Instances == GeneratedInstances \cup {Diamond, Bottleneck}

\* no input folder: the caller filled the fields of the object itself
NoFiles == [nodes |-> <<>>, rows |-> <<>>, source |-> NoNode,
            destination |-> NoNode]

-----------------------------------------------------------------------------
(* State after MFBPwithSAT() *)

\* MFBPwithSAT.__init__ for the fields of the solver's own
InitObject ==
    /\ block_vars = EmptyDict
    /\ mc_vars = EmptyDict
    /\ source_vars = EmptyDict
    /\ duality_vars = EmptyDict
    /\ next_aux_var = 1
    /\ cnf = <<>>
    /\ solver = <<>>
    /\ solution = NoSolution
    /\ c_min = 0
    /\ c_max = 0
    /\ c_mid = 0
    /\ fixed_clause_count = 0
    /\ answer = "none"
    /\ queries = 0
    /\ result = [kind |-> "running"]

\* an MFBPwithSAT object whose fields the caller has set to an instance
\* (as lines 188-197 do), before solve_with_binary_search is called
Init ==
    /\ \E inst \in Instances :
          /\ nodes = inst.nodes
          /\ links = inst.links
          /\ capacities = inst.capacities
          /\ blocker_costs = inst.blocker_costs
          /\ source = inst.source
          /\ destination = inst.destination
          /\ target_flow = inst.target_flow
    /\ files = NoFiles
    /\ history = <<>>
    /\ pc = "ready"
    /\ InitObject

-----------------------------------------------------------------------------
(* solve_with_binary_search *)

\* the state the lines 130-140 build: variables, flow conservation clauses
Built ==
    LET cv == create_variables(links, nodes, block_vars, mc_vars,
                               source_vars, 1)
        fc == create_flow_conservation_constraints(links, source, destination,
                  cv.block_vars, cv.mc_vars, cv.source_vars, duality_vars,
                  cnf, cv.next)
    IN [cv |-> cv, fc |-> fc]

\* lines 127-143: set_next_aux_var(1), the budget range, the variables and
\* the fixed constraints, fixed_clause_count
Setup ==
    /\ pc = "ready"
    /\ LET b  == Built
           tf == create_target_flow_constraint(links, b.cv.mc_vars,
                     capacities, target_flow, b.fc.next)
       IN /\ ~b.fc.raised
          /\ block_vars' = b.cv.block_vars
          /\ mc_vars' = b.cv.mc_vars
          /\ source_vars' = b.cv.source_vars
          /\ duality_vars' = b.fc.duality_vars
          /\ cnf' = Append(b.fc.cnf, tf)
          /\ next_aux_var' = AfterEncoder(tf)
          /\ fixed_clause_count' = Len(b.fc.cnf) + 1
    /\ c_min' = 0
    /\ c_max' = SumDict(blocker_costs, DOMAIN blocker_costs)
    /\ pc' = "loop"
    /\ UNCHANGED <<files, nodes, links, capacities, blocker_costs, source,
                   destination, target_flow, solver, solution, c_mid, answer,
                   queries, result, history>>

\* lines 55-71 raise KeyError: the source, the destination or an end of a
\* link is no key of source_vars
SetupRaises ==
    /\ pc = "ready"
    /\ LET b == Built
       IN /\ b.fc.raised
          /\ block_vars' = b.cv.block_vars
          /\ mc_vars' = b.cv.mc_vars
          /\ source_vars' = b.cv.source_vars
          /\ duality_vars' = b.fc.duality_vars
          /\ cnf' = b.fc.cnf
          /\ next_aux_var' = b.fc.next
    /\ c_min' = 0
    /\ c_max' = SumDict(blocker_costs, DOMAIN blocker_costs)
    /\ result' = [kind |-> "KeyError"]
    /\ pc' = "raised"
    /\ UNCHANGED <<files, nodes, links, capacities, blocker_costs, source,
                   destination, target_flow, solver, solution, c_mid,
                   fixed_clause_count, answer, queries, history>>

\* the Formula left as it is: nothing is rolled back
PrefixKeepAll(s, n) == s

\* s[:n]
Prefix(s, n) == SubSeq(s, 1, IF n < Len(s) THEN n ELSE Len(s))

\* the lowest budget of the range asked first (a linear search from below)
MidpointLowest(lo, hi) == lo

\* line 146
Midpoint(lo, hi) == (lo + hi) \div 2

\* lines 145-151: the next budget, the Formula rolled back to the fixed
\* clauses, the budget constraint, and the Formula loaded into the solver
BuildQuery ==
    /\ pc = "loop"
    /\ c_min < c_max
    /\ LET mid == Midpoint(c_min, c_max)
           ob  == create_objective_constraint(links, block_vars,
                      blocker_costs, mid, next_aux_var)
           f   == Append(Prefix(cnf, fixed_clause_count), ob)
       IN /\ c_mid' = mid
          /\ cnf' = f
          /\ next_aux_var' = AfterEncoder(ob)
          /\ solver' = solver \o f
    /\ pc' = "query"
    /\ UNCHANGED <<files, nodes, links, capacities, blocker_costs, source,
                   destination, target_flow, block_vars, mc_vars, source_vars,
                   duality_vars, solution, c_min, c_max, fixed_clause_count,
                   answer, queries, result, history>>

\* what Glucose3.solve() can find for the clauses loaded in the solver
SolverModels ==
    Models(solver, Range(source_vars) \cup Range(duality_vars),
           Range(block_vars), Range(mc_vars))

\* the upper end taken as excluded after a satisfiable answer
NarrowUpperExclusive(mid) == mid - 1

\* line 155
NarrowUpper(mid) == mid

\* line 159
NarrowLower(mid) == mid + 1

\* the first model found is kept
RecordSolutionOnce(old, new) == IF old.isNone THEN new ELSE old

\* line 156: the model replaces whatever was recorded
RecordSolution(old, new) == new

\* the solver kept from one iteration to the next
ResetSolverNever(lo, hi, sv) == sv

\* lines 161-164: the solver is replaced when another iteration follows
ResetSolver(lo, hi, sv) == IF lo < hi THEN <<>> ELSE sv

\* lines 153-156, 161-164: solve() returns True with some model
OracleSat ==
    /\ pc = "query"
    /\ \E m \in SolverModels :
          solution' = RecordSolution(solution,
                         [isNone |-> FALSE, model |-> m, budget |-> c_mid])
    /\ answer' = "sat"
    /\ queries' = queries + 1
    /\ c_max' = NarrowUpper(c_mid)
    /\ solver' = ResetSolver(c_min, c_max', solver)
    /\ pc' = "loop"
    /\ UNCHANGED <<files, nodes, links, capacities, blocker_costs, source,
                   destination, target_flow, block_vars, mc_vars, source_vars,
                   duality_vars, next_aux_var, cnf, c_min, c_mid,
                   fixed_clause_count, result, history>>

\* lines 153, 157-164: solve() returns False
OracleUnsat ==
    /\ pc = "query"
    /\ SolverModels = {}
    /\ answer' = "unsat"
    /\ queries' = queries + 1
    /\ c_min' = NarrowLower(c_mid)
    /\ solver' = ResetSolver(c_min', c_max, solver)
    /\ pc' = "loop"
    /\ UNCHANGED <<files, nodes, links, capacities, blocker_costs, source,
                   destination, target_flow, block_vars, mc_vars, source_vars,
                   duality_vars, next_aux_var, cnf, solution, c_max, c_mid,
                   fixed_clause_count, result, history>>

\* dict keys in insertion order: the list without its repeated elements
RECURSIVE Keys(_)
Keys(s) == IF s = <<>> THEN <<>>
           ELSE LET rest == Keys(SubSeq(s, 1, Len(s) - 1))
                    last == s[Len(s)]
                IN IF last \in Range(rest) THEN rest ELSE Append(rest, last)

\* line 168: the links whose block variable is in the recorded model
BlockedLinks(lk, bv, model) ==
    LET blocked(l) == bv[l] \in model
    IN SelectSeq(Keys(lk), blocked)

\* the number of blocked links returned for their cost
OptimalCostCounted(hi, blocked) == Len(blocked)

\* line 170: the cost returned with the blocked links
OptimalCost(hi, blocked) == hi

\* lines 166-173: the result once c_min >= c_max
Finish ==
    /\ pc = "loop"
    /\ ~(c_min < c_max)
    /\ result' = IF ~solution.isNone
                 THEN LET bl == BlockedLinks(links, block_vars, solution.model)
                      IN [kind |-> "pair", blocked_links |-> bl,
                          cost |-> OptimalCost(c_max, bl)]
                 ELSE [kind |-> "None"]
    /\ pc' = "done"
    /\ UNCHANGED <<files, nodes, links, capacities, blocker_costs, source,
                   destination, target_flow, block_vars, mc_vars, source_vars,
                   duality_vars, next_aux_var, cnf, solver, solution, c_min,
                   c_max, c_mid, fixed_clause_count, answer, queries, history>>

Next == Setup \/ BuildQuery \/ OracleSat \/ OracleUnsat \/ Finish

Spec == Init /\ [][Next]_vars

-----------------------------------------------------------------------------
(* The solver asked with no definite answer *)

\* line 153 when solve() comes back from an interrupted or timed-out call
\* with a value that is not a verdict (None, or False for "undecided"): the
\* value is falsy, the else branch of lines 157-159 runs
OracleInconclusive ==
    /\ pc = "query"
    /\ answer' = "inconclusive"
    /\ queries' = queries + 1
    /\ c_min' = NarrowLower(c_mid)
    /\ solver' = ResetSolver(c_min', c_max, solver)
    /\ pc' = "loop"
    /\ UNCHANGED <<files, nodes, links, capacities, blocker_costs, source,
                   destination, target_flow, block_vars, mc_vars, source_vars,
                   duality_vars, next_aux_var, cnf, solution, c_max, c_mid,
                   fixed_clause_count, result, history>>

\* line 153 when the interrupted solve() raises instead: nothing in
\* solve_with_binary_search catches the exception
OracleRaises ==
    /\ pc = "query"
    /\ answer' = "raised"
    /\ queries' = queries + 1
    /\ result' = [kind |-> "SolverError"]
    /\ pc' = "raised"
    /\ UNCHANGED <<files, nodes, links, capacities, blocker_costs, source,
                   destination, target_flow, block_vars, mc_vars, source_vars,
                   duality_vars, next_aux_var, cnf, solver, solution, c_min,
                   c_max, c_mid, fixed_clause_count, history>>

NextInconclusive == Next \/ OracleInconclusive \/ OracleRaises

SpecInconclusive == Init /\ [][NextInconclusive]_vars

-----------------------------------------------------------------------------
(* InputParser and solve_mfbp *)

\* a row of link.csv: srcNodeId, dstNodeId, bandwidth, cost
Row(h, t, cap, cost) == [head |-> h, tail |-> t, cap |-> cap, cost |-> cost]

\* parse_links: csv.DictReader takes the header line for the field names,
\* next(csv_reader) of line 40 then consumes the first data row; the rows
\* after it fill the list and the two dicts (a pair listed twice keeps the
\* values of its last row)
parse_links(rows) ==
    LET lk == [i \in 1..(Len(rows) - 1) |->
                  <<rows[i + 1].head, rows[i + 1].tail>>]
    IN [links |-> lk,
        capacities |-> [k \in Range(lk) |-> rows[LastIndex(lk, k) + 1].cap],
        blocker_costs |->
            [k \in Range(lk) |-> rows[LastIndex(lk, k) + 1].cost]]

\* the link rows of the generated input folders
FilePairs == {<<1, 2>>, <<2, 1>>, <<1, 3>>, <<3, 2>>}
FileRows ==
    {Row(p[1], p[2], v[1], v[2]) :
        p \in FilePairs,
        v \in {<<1, c>> : c \in (-1)..MaxCost} \cup {<<-1, 1>>}}
FirstRows == {Row(1, 2, 1, 1), Row(1, 3, 1, -1)}
RowCounts == {0, 1, 2}

\* link.csv: a first data row and at most two more
FileRowLists ==
    {<<>>} \cup
    UNION {{<<f>> \o r : f \in FirstRows, r \in [1..n -> FileRows]} :
           n \in RowCounts}

\* service.txt
FileServices == {<<1, 2>>, <<2, 2>>, <<1, 3>>, <<3, 2>>}

\* the generated input folders; node.csv lists the nodes 1 and 2
FileSets ==
    {[nodes |-> <<1, 2>>, rows |-> r, source |-> sd[1],
      destination |-> sd[2]] : r \in FileRowLists, sd \in FileServices}

\* state before solve_mfbp(folder_path)
InitMfbp ==
    /\ files \in FileSets
    /\ nodes = <<>>
    /\ links = <<>>
    /\ capacities = EmptyDict
    /\ blocker_costs = EmptyDict
    /\ source = NoNode
    /\ destination = NoNode
    /\ target_flow = NoTarget
    /\ history = <<>>
    /\ pc = "parse"
    /\ InitObject

\* lines 177-197: parse_all, a new MFBPwithSAT, its fields, target_flow = 0
ParseAll ==
    /\ pc = "parse"
    /\ Len(files.rows) >= 1
    /\ LET pl == parse_links(files.rows)
       IN /\ links' = pl.links
          /\ capacities' = pl.capacities
          /\ blocker_costs' = pl.blocker_costs
    /\ nodes' = files.nodes
    /\ source' = files.source
    /\ destination' = files.destination
    /\ target_flow' = 0
    /\ pc' = "ready"
    /\ UNCHANGED <<files, block_vars, mc_vars, source_vars, duality_vars,
                   next_aux_var, cnf, solver, solution, c_min, c_max, c_mid,
                   fixed_clause_count, answer, queries, result, history>>

\* line 40 on a link.csv with no data row: next() raises StopIteration
ParseAllRaises ==
    /\ pc = "parse"
    /\ Len(files.rows) = 0
    /\ nodes' = files.nodes
    /\ result' = [kind |-> "StopIteration"]
    /\ pc' = "raised"
    /\ UNCHANGED <<files, links, capacities, blocker_costs, source,
                   destination, target_flow, block_vars, mc_vars, source_vars,
                   duality_vars, next_aux_var, cnf, solver, solution, c_min,
                   c_max, c_mid, fixed_clause_count, answer, queries, history>>

\* lines 200-202: the pair is unpacked and returned; None cannot be
\* unpacked (TypeError); an exception raised below propagates
solve_mfbp(res) ==
    IF res.kind = "None" THEN [kind |-> "TypeError"] ELSE res

\* solve_mfbp ends
SolveMfbpReturn ==
    /\ pc \in {"done", "raised"}
    /\ files # NoFiles
    /\ history' = Append(history, solve_mfbp(result))
    /\ pc' = "returned"
    /\ UNCHANGED <<files, nodes, links, capacities, blocker_costs, source,
                   destination, target_flow, block_vars, mc_vars, source_vars,
                   duality_vars, next_aux_var, cnf, solver, solution, c_min,
                   c_max, c_mid, fixed_clause_count, answer, queries, result>>

\* solve_mfbp is called again on the same folder: a new parser, a new object
SolveMfbpAgain ==
    /\ pc = "returned"
    /\ Len(history) = 1
    /\ nodes' = <<>>
    /\ links' = <<>>
    /\ capacities' = EmptyDict
    /\ blocker_costs' = EmptyDict
    /\ source' = NoNode
    /\ destination' = NoNode
    /\ target_flow' = NoTarget
    /\ block_vars' = EmptyDict
    /\ mc_vars' = EmptyDict
    /\ source_vars' = EmptyDict
    /\ duality_vars' = EmptyDict
    /\ next_aux_var' = 1
    /\ cnf' = <<>>
    /\ solver' = <<>>
    /\ solution' = NoSolution
    /\ c_min' = 0
    /\ c_max' = 0
    /\ c_mid' = 0
    /\ fixed_clause_count' = 0
    /\ answer' = "none"
    /\ queries' = 0
    /\ result' = [kind |-> "running"]
    /\ pc' = "parse"
    /\ UNCHANGED <<files, history>>

NextMfbp ==
    \/ ParseAll \/ ParseAllRaises \/ Setup \/ SetupRaises \/ BuildQuery
    \/ OracleSat \/ OracleUnsat \/ Finish \/ SolveMfbpReturn
    \/ SolveMfbpAgain

SpecMfbp == InitMfbp /\ [][NextMfbp]_vars

-----------------------------------------------------------------------------
(* Maximum flow and cheapest blocker, computed from their definitions *)

RECURSIVE SumOver(_, _)
\* the sum of f over the set S
SumOver(f, S) == IF S = {} THEN 0
                 ELSE LET x == CHOOSE y \in S : TRUE
                      IN f[x] + SumOver(f, S \ {x})

RECURSIVE MaxOf(_)
MaxOf(S) == LET x == CHOOSE y \in S : TRUE
            IN IF S = {x} THEN x
               ELSE LET m == MaxOf(S \ {x}) IN IF x > m THEN x ELSE m

RECURSIVE MinOf(_)
MinOf(S) == LET x == CHOOSE y \in S : TRUE
            IN IF S = {x} THEN x
               ELSE LET m == MinOf(S \ {x}) IN IF x < m THEN x ELSE m

\* the flows on the links L (a link carries flow from its head to its tail):
\* within capacity on every link, conserved at every node but s and t
FlowsOn(L, cap, N, s, t) ==
    {f \in [L -> 0..MaxOf({0} \cup {cap[l] : l \in L})] :
        /\ \A l \in L : f[l] <= cap[l]
        /\ \A n \in N \ {s, t} :
              SumOver(f, {l \in L : l[2] = n}) = SumOver(f, {l \in L : l[1] = n})}

\* the maximum flow from s to t over the links L
MaxFlow(L, cap, N, s, t) ==
    MaxOf({SumOver(f, {l \in L : l[1] = s}) - SumOver(f, {l \in L : l[2] = s}) :
              f \in FlowsOn(L, cap, N, s, t)})

\* the sets of links whose removal leaves a maximum flow of at most target
Blockers(L, cap, N, s, t, target) ==
    {B \in SUBSET L : MaxFlow(L \ B, cap, N, s, t) <= target}

\* the cheapest of them
MinBlockerCost(L, cap, cost, N, s, t, target) ==
    MinOf({SumOver(cost, B) : B \in Blockers(L, cap, N, s, t, target)})

\* the instance held by the object is one the data model allows
ValidInstance ==
    /\ \A i \in DOMAIN links :
          links[i][1] \in Range(nodes) /\ links[i][2] \in Range(nodes)
    /\ \A i, j \in DOMAIN links : i # j => links[i] # links[j]
    /\ \A l \in Range(links) : capacities[l] >= 0 /\ blocker_costs[l] >= 0
    /\ source \in Range(nodes)
    /\ destination \in Range(nodes)
    /\ source # destination

\* the maximum flow of the object's network with the links in B removed
ResidualFlow(B) ==
    MaxFlow(Range(links) \ B, capacities, Range(nodes), source, destination)

\* the fixed clauses followed by the budget constraint for b, as one query
\* on a new solver would see them
QueryAt(b) ==
    Append(Prefix(cnf, fixed_clause_count),
           create_objective_constraint(links, block_vars, blocker_costs, b,
                                       next_aux_var))

\* the formula with budget b is satisfiable
SatAt(b) ==
    Models(QueryAt(b), Range(source_vars) \cup Range(duality_vars),
           Range(block_vars), Range(mc_vars)) # {}

-----------------------------------------------------------------------------
(* Claims *)

\* C1: on a valid instance, a non-empty blocked-link set returned by
\* solve_with_binary_search leaves a maximum flow from source to destination
\* of at most target_flow once its links are removed.
C1_BlockedSetReachesTarget ==
    (/\ pc = "done"
     /\ ValidInstance
     /\ result.kind = "pair"
     /\ result.blocked_links # <<>>)
    => ResidualFlow(Range(result.blocked_links)) <= target_flow

\* C2: the cost returned is the minimum total blocker cost over the link sets
\* whose removal brings the maximum flow to at most target_flow; the diamond
\* network yields cost 2, the single bottleneck cost 3 and its one link.
C2_CostIsMinimumBlockerCost ==
    (pc = "done" /\ ValidInstance) =>
        /\ result.kind = "pair" =>
              result.cost = MinBlockerCost(Range(links), capacities,
                                blocker_costs, Range(nodes), source,
                                destination, target_flow)
        /\ links = Diamond.links /\ nodes = Diamond.nodes =>
              result.kind = "pair" /\ result.cost = 2
        /\ links = Bottleneck.links /\ nodes = Bottleneck.nodes =>
              /\ result.kind = "pair"
              /\ result.cost = 3
              /\ result.blocked_links = Bottleneck.links

\* C3: with target_flow = 0 on a valid network the search ends with a
\* solution, never with None.
C3_ZeroTargetAlwaysSolved ==
    (pc = "done" /\ ValidInstance /\ target_flow = 0) => result.kind = "pair"

\* C4: when target_flow is at least the maximum flow of the unmodified
\* network, the search returns cost 0 and no blocked link.
C4_TargetAboveMaxFlowCostsNothing ==
    (pc = "done" /\ ValidInstance /\ target_flow >= ResidualFlow({})) =>
        /\ result.kind = "pair"
        /\ result.cost = 0
        /\ result.blocked_links = <<>>

\* C5: two solves of the same input folder through solve_mfbp end the same
\* way and, when they return, return the same minimum cost, whatever models
\* the solver chose in either.
C5_SameCostOnBothSolves ==
    Len(history) = 2 =>
        /\ history[1].kind = history[2].kind
        /\ history[1].kind = "pair" => history[1].cost = history[2].cost

\* two solves returned, with the same cost and different blocked links
C5_Witness ==
    /\ Len(history) = 2
    /\ history[1].kind = "pair"
    /\ history[2].kind = "pair"
    /\ history[1].blocked_links # history[2].blocked_links

\* the input folder breaks a rule of the data model
Malformed(f) ==
    \/ \E i \in DOMAIN f.rows :
          \/ f.rows[i].head \notin Range(f.nodes)
          \/ f.rows[i].tail \notin Range(f.nodes)
          \/ f.rows[i].cap < 0
          \/ f.rows[i].cost < 0
    \/ \E i, j \in DOMAIN f.rows :
          /\ i # j
          /\ f.rows[i].head = f.rows[j].head
          /\ f.rows[i].tail = f.rows[j].tail
    \/ f.source \notin Range(f.nodes)
    \/ f.destination \notin Range(f.nodes)
    \/ f.source = f.destination

\* C6: a malformed input is rejected before a variable is allocated, a
\* clause is built or the solver is asked: no solve on it allocates, builds
\* or asks anything, and none comes to a result.
C6_MalformedRejectedBeforeSolving ==
    Malformed(files) =>
        /\ next_aux_var = 1
        /\ cnf = <<>>
        /\ queries = 0
        /\ result.kind \notin {"pair", "None"}

\* C7: a solve() that ends with no definite answer is not taken for
\* unsatisfiable: c_min is not raised past the budget asked, and the solve
\* ends in an outcome that is neither a solution nor None.
C7_InconclusiveIsNotUnsat ==
    answer \in {"inconclusive", "raised"} =>
        /\ c_min <= c_mid
        /\ pc \in {"done", "raised"} => result.kind \notin {"pair", "None"}

\* the clauses of create_flow_conservation_constraints in the Formula
FlowClauses ==
    LET plain(cl) == cl.kind = "clause" IN SelectSeq(cnf, plain)

\* C8: in every assignment that satisfies the clauses of
\* create_flow_conservation_constraints, a link whose head is on the source
\* side and whose tail is on the sink side is blocked or in the cut.
C8_CrossingLinkBlockedOrCut ==
    pc = "loop" =>
        \A A \in Models(FlowClauses,
                        Range(source_vars) \cup Range(duality_vars),
                        Range(block_vars), Range(mc_vars)) :
            \A l \in Range(links) :
                (source_vars[l[1]] \in A /\ source_vars[l[2]] \notin A)
                    => (block_vars[l] \in A \/ mc_vars[l] \in A)

\* C9: the cost c returned is the least budget at which the fixed clauses
\* with the budget constraint are satisfiable: satisfiable at c,
\* unsatisfiable at every budget from 0 to c - 1.
C9_ReturnedCostIsLeastSatisfiableBudget ==
    (pc = "done" /\ result.kind = "pair") =>
        /\ SatAt(result.cost)
        /\ \A b \in 0..(result.cost - 1) : ~SatAt(b)

\* a solve returned a cost with at least two smaller budgets below it
C9_Witness ==
    /\ pc = "done"
    /\ result.kind = "pair"
    /\ result.cost >= 2
    /\ queries >= 2

\* C10: once a model is recorded, it is the model of the query whose budget
\* is the current c_max (it satisfies that budget), and the blocked links
\* returned are read from it.
C10_RecordedModelIsTheOneAtCMax ==
    ~solution.isNone =>
        /\ solution.budget = c_max
        /\ Holds(create_objective_constraint(links, block_vars,
                     blocker_costs, c_max, next_aux_var), solution.model)
        /\ pc = "done" =>
              /\ result.kind = "pair"
              /\ result.blocked_links =
                    BlockedLinks(links, block_vars, solution.model)

\* the search ended after the solver said satisfiable at least twice, each
\* time at a smaller budget
C10_Witness ==
    /\ pc = "done"
    /\ result.kind = "pair"
    /\ result.cost = 0
    /\ queries >= 2
    /\ solution.budget = 0

-----------------------------------------------------------------------------
(* Solves with target_flow = 0 *)

\* the instances with target_flow 0, as solve_mfbp sets it, and links of
\* capacity at least 1
ZeroTargetInstances ==
    {inst \in Instances :
        /\ inst.target_flow = 0
        /\ \A l \in Range(inst.links) : inst.capacities[l] >= 1}

\* an object whose fields the caller has set to one of them
InitZeroTarget ==
    /\ \E inst \in ZeroTargetInstances :
          /\ nodes = inst.nodes
          /\ links = inst.links
          /\ capacities = inst.capacities
          /\ blocker_costs = inst.blocker_costs
          /\ source = inst.source
          /\ destination = inst.destination
          /\ target_flow = inst.target_flow
    /\ files = NoFiles
    /\ history = <<>>
    /\ pc = "ready"
    /\ InitObject

-----------------------------------------------------------------------------
(* Termination of the binary search *)

\* The program is sequential: a step that can be taken is taken, which is
\* weak fairness of its steps.  For the steps of the loop head and of the
\* return it is stated as such.  For Setup and the answers of the solver,
\* WF_vars(A) is written out as []<>(~ENABLED <<A>>_vars) \/ []<><<A>>_vars
\* with ENABLED put as what it amounts to: Setup is possible exactly at
\* "ready", an answer of the solver exactly at "query".
SpecLive ==
    /\ InitZeroTarget
    /\ [][Next]_vars
    /\ WF_vars(BuildQuery \/ Finish)
    /\ ([]<>(pc \notin {"ready", "query"})
          \/ []<><<Setup \/ OracleSat \/ OracleUnsat>>_vars)

\* the sum of the blocker costs, the first c_max
TotalCost == SumDict(blocker_costs, DOMAIN blocker_costs)

RECURSIVE Log2Floor(_)
\* floor(log2(n)) for n >= 1
Log2Floor(n) == IF n <= 1 THEN 0 ELSE 1 + Log2Floor(n \div 2)

\* the budget range while the loop runs, and the budget asked inside it
C11_RangeOrdered ==
    /\ pc \in {"loop", "query"} =>
          0 <= c_min /\ c_min <= c_max /\ c_max <= TotalCost
    /\ pc = "query" => c_min <= c_mid /\ c_mid < c_max

\* one query leaves at most half of the range, rounded down
C11_QueryHalvesRange ==
    queries' = queries + 1 =>
        /\ c_max' - c_min' < c_max - c_min
        /\ c_max' - c_min' <= (c_max - c_min) \div 2

\* the search is over: the range is one budget, reached within the bound
C11_EndsWithinBound ==
    pc = "done" =>
        /\ c_min = c_max
        /\ queries <= IF TotalCost >= 1 THEN Log2Floor(TotalCost) + 1 ELSE 0

\* C11: the binary search terminates: in every iteration
\* 0 <= c_min <= c_mid < c_max <= sum of the blocker costs, every query
\* leaves at most half (rounded down) of c_max - c_min, and the loop ends with
\* c_min = c_max after at most floor(log2(sum)) + 1 queries (none when the sum
\* is 0).
C11_LoopTerminates ==
    /\ []C11_RangeOrdered
    /\ [][C11_QueryHalvesRange]_vars
    /\ []C11_EndsWithinBound
    /\ <>(pc = "done")

\* a search that ended having used every query the bound allows
C11_Witness ==
    /\ pc = "done"
    /\ TotalCost >= 3
    /\ queries = Log2Floor(TotalCost) + 1

-----------------------------------------------------------------------------
(* The Formula and the solver at each query *)

\* the fixed clauses of the instance as a new object builds them: the
\* clauses of create_flow_conservation_constraints, then the target-flow
\* constraint
FixedPrefix ==
    LET cv == create_variables(links, nodes, EmptyDict, EmptyDict, EmptyDict,
                               1)
        fc == create_flow_conservation_constraints(links, source, destination,
                  cv.block_vars, cv.mc_vars, cv.source_vars, EmptyDict, <<>>,
                  cv.next)
    IN Append(fc.cnf, create_target_flow_constraint(links, cv.mc_vars,
                          capacities, target_flow, fc.next))

\* the block cl is a budget constraint for the budget b
IsBudgetBlock(cl, b) ==
    /\ cl.kind = "pb"
    /\ cl.bound = b
    /\ cl.lits = [i \in DOMAIN links |-> block_vars[links[i]]]
    /\ cl.weights = [i \in DOMAIN links |-> blocker_costs[links[i]]]

\* C12: at every query of one solve the Formula is the fixed prefix, the
\* same clauses in the same order as when the loop started, followed by the
\* budget constraint of the current c_mid alone; no budget constraint of an
\* earlier iteration remains and the rollback removes no fixed clause.
C12_FormulaIsPrefixThenBudget ==
    /\ pc \in {"loop", "query", "done"} =>
          /\ fixed_clause_count = Len(FixedPrefix)
          /\ Prefix(cnf, fixed_clause_count) = FixedPrefix
    /\ pc = "query" =>
          /\ Len(cnf) = fixed_clause_count + 1
          /\ IsBudgetBlock(cnf[Len(cnf)], c_mid)

\* a query after an earlier one asked for another budget
C12_Witness ==
    /\ pc = "query"
    /\ queries >= 2
    /\ links # <<>>
    /\ ~solution.isNone
    /\ solution.budget # c_mid

\* C13: every query of the binary search runs on a new solver: when solve()
\* is called the clauses loaded in the solver are the Formula of this
\* iteration and nothing else.
C13_SolverHoldsCurrentFormulaOnly ==
    pc = "query" => solver = cnf

\* a query asked of a solver created by the reset of lines 161-164
C13_Witness ==
    /\ pc = "query"
    /\ queries >= 1
    /\ answer = "unsat"
    /\ solver # <<>>

-----------------------------------------------------------------------------
(* The encoder handing out any number of auxiliary ids *)

\* numbers of auxiliary ids one Pb2cnf.encode call may take
AuxCounts == {0, 1, 3}

\* the block of an encoder call that took k auxiliary ids from its
\* AuxVarManager: get_biggest_returned_auxvar() is the last id handed out,
\* the id before the first one when none was
Reporting(block, k) == [block EXCEPT !.last_aux = block.first_aux + k - 1]

\* Setup, the encoder of the target-flow constraint taking any number of ids
SetupAnyEncoder ==
    /\ pc = "ready"
    /\ \E k \in AuxCounts :
          LET b  == Built
              tf == Reporting(create_target_flow_constraint(links,
                        b.cv.mc_vars, capacities, target_flow, b.fc.next), k)
          IN /\ ~b.fc.raised
             /\ block_vars' = b.cv.block_vars
             /\ mc_vars' = b.cv.mc_vars
             /\ source_vars' = b.cv.source_vars
             /\ duality_vars' = b.fc.duality_vars
             /\ cnf' = Append(b.fc.cnf, tf)
             /\ next_aux_var' = AfterEncoder(tf)
             /\ fixed_clause_count' = Len(b.fc.cnf) + 1
    /\ c_min' = 0
    /\ c_max' = SumDict(blocker_costs, DOMAIN blocker_costs)
    /\ pc' = "loop"
    /\ UNCHANGED <<files, nodes, links, capacities, blocker_costs, source,
                   destination, target_flow, solver, solution, c_mid, answer,
                   queries, result, history>>

\* BuildQuery, the encoder of the budget constraint taking any number of ids
BuildQueryAnyEncoder ==
    /\ pc = "loop"
    /\ c_min < c_max
    /\ \E k \in AuxCounts :
          LET mid == Midpoint(c_min, c_max)
              ob  == Reporting(create_objective_constraint(links, block_vars,
                         blocker_costs, mid, next_aux_var), k)
              f   == Append(Prefix(cnf, fixed_clause_count), ob)
          IN /\ c_mid' = mid
             /\ cnf' = f
             /\ next_aux_var' = AfterEncoder(ob)
             /\ solver' = solver \o f
    /\ pc' = "query"
    /\ UNCHANGED <<files, nodes, links, capacities, blocker_costs, source,
                   destination, target_flow, block_vars, mc_vars, source_vars,
                   duality_vars, solution, c_min, c_max, fixed_clause_count,
                   answer, queries, result, history>>

NextAnyEncoder ==
    \/ SetupAnyEncoder \/ BuildQueryAnyEncoder
    \/ OracleSat \/ OracleUnsat \/ Finish

SpecAnyEncoder == InitZeroTarget /\ [][NextAnyEncoder]_vars

-----------------------------------------------------------------------------
(* Variable identifiers *)

\* the identifiers of the four families of variables
FamilyIds ==
    Range(block_vars) \cup Range(mc_vars) \cup Range(source_vars)
        \cup Range(duality_vars)

\* the blocks of the Formula the encoder wrote (by index)
EncoderBlocks == {i \in DOMAIN cnf : cnf[i].kind = "pb"}

\* identifiers from 1 on, none shared, one dual variable per tail node, and
\* every encoder call started above the families and above the ids of the
\* encoder calls before it, the high-water mark above them all
C14_IdsDistinct ==
    pc \in {"loop", "query", "done"} =>
        /\ \A v \in FamilyIds : v >= 1
        /\ Cardinality(FamilyIds) =
              Cardinality(DOMAIN block_vars) + Cardinality(DOMAIN mc_vars)
              + Cardinality(DOMAIN source_vars)
              + Cardinality(DOMAIN duality_vars)
        /\ DOMAIN block_vars = Range(links)
        /\ DOMAIN mc_vars = Range(links)
        /\ DOMAIN source_vars = Range(nodes)
        /\ DOMAIN duality_vars = {links[i][2] : i \in DOMAIN links}
        /\ \A i \in EncoderBlocks :
              /\ \A v \in FamilyIds : cnf[i].first_aux > v
              /\ \A j \in EncoderBlocks :
                    j < i => cnf[i].first_aux > cnf[j].last_aux
              /\ cnf[i].last_aux < next_aux_var
        /\ \A v \in FamilyIds : v < next_aux_var

\* an encoder call starts at the high-water mark or above it
C14_EncoderStartsAtMark ==
    (pc = "loop" /\ pc' = "query") =>
        /\ cnf'[Len(cnf')].first_aux >= next_aux_var
        /\ next_aux_var' >= next_aux_var

\* C14: throughout one solve of a new object every variable identifier is
\* at least 1 and none is shared: block, mc, side and dual identifiers are
\* pairwise distinct, there is one dual variable per distinct tail node, and
\* every first auxiliary id handed to the encoder is above every block, mc,
\* side and dual identifier and above every auxiliary id of an earlier call.
C14_IdentifiersNeverCollide ==
    /\ []C14_IdsDistinct
    /\ [][C14_EncoderStartsAtMark]_vars

\* a later query on a network where two links share their tail, the encoder
\* having taken auxiliary ids for the target-flow constraint
C14_Witness ==
    /\ pc = "query"
    /\ queries >= 1
    /\ \E i, j \in DOMAIN links : i # j /\ links[i][2] = links[j][2]
    /\ \E i \in EncoderBlocks :
          i <= fixed_clause_count /\ cnf[i].last_aux > cnf[i].first_aux

\* the larger of two numbers
Max(a, b) == IF a >= b THEN a ELSE b

\* the step is a call of create_target_flow_constraint or of
\* create_objective_constraint
EncoderCalled ==
    \/ pc = "ready" /\ pc' = "loop"
    \/ pc = "loop" /\ pc' = "query"

\* C15: after every call into the encoder the high-water mark next_aux_var is
\* max(its value before the call, highest id the encoder reported + 1), and
\* so never decreases, whatever the encoder reports, a highest id below the
\* first id it was given included.
C15_MarkIsMaxOfBeforeAndReported ==
    [][EncoderCalled =>
          LET block  == cnf'[Len(cnf')]
              before == IF pc = "ready" THEN block.first_aux
                        ELSE next_aux_var
          IN /\ block.first_aux = before
             /\ next_aux_var' = Max(before, block.last_aux + 1)
             /\ next_aux_var' >= next_aux_var]_vars

\* the encoder has reported a highest id below the first id it was given,
\* for the target-flow constraint and for a budget constraint
C15_Witness ==
    /\ pc = "query"
    /\ \A i \in EncoderBlocks : cnf[i].last_aux < cnf[i].first_aux
    /\ Cardinality(EncoderBlocks) = 2
    /\ links # <<>>

-----------------------------------------------------------------------------
(* The result *)

\* C16: when the first solve_with_binary_search of a new object returns
\* (blocked_links, c), blocked_links lists exactly the links whose block
\* variable is true in the recorded model, each once, and their blocker costs
\* add up to c, not to less.
C16_BlockedLinksCostExactlyC ==
    (pc = "done" /\ result.kind = "pair") =>
        /\ Range(result.blocked_links) =
              {l \in Range(links) : block_vars[l] \in solution.model}
        /\ Cardinality(Range(result.blocked_links)) =
              Len(result.blocked_links)
        /\ SumSeq([i \in DOMAIN result.blocked_links |->
                      blocker_costs[result.blocked_links[i]]]) = result.cost

\* a solve returned a blocked link at a cost above 0 after two queries
C16_Witness ==
    /\ pc = "done"
    /\ result.kind = "pair"
    /\ result.cost >= 1
    /\ result.blocked_links # <<>>
    /\ Len(links) = 2
    /\ queries >= 2

-----------------------------------------------------------------------------
(* solve_with_binary_search called again on the same object *)

\* the caller keeps the result of the first call and calls
\* solve_with_binary_search again: the fields of the object stay as the
\* first call left them, the locals of the call are new
CallAgain ==
    /\ pc = "done"
    /\ history = <<>>
    /\ history' = <<result>>
    /\ result' = [kind |-> "running"]
    /\ c_mid' = 0
    /\ answer' = "none"
    /\ queries' = 0
    /\ pc' = "ready"
    /\ UNCHANGED <<files, nodes, links, capacities, blocker_costs, source,
                   destination, target_flow, block_vars, mc_vars, source_vars,
                   duality_vars, next_aux_var, cnf, solver, solution, c_min,
                   c_max, fixed_clause_count>>

NextCallAgain == Next \/ CallAgain

SpecCallAgain == InitZeroTarget /\ [][NextCallAgain]_vars

\* C17: a second solve_with_binary_search on the same object, the instance
\* unchanged, ends as the first did and returns the same minimum cost, and
\* its variable identifiers are free of collisions as in the first call.
C17_SecondCallSameCost ==
    (pc = "done" /\ Len(history) = 1) =>
        /\ result.kind = history[1].kind
        /\ result.kind = "pair" => result.cost = history[1].cost
        /\ C14_IdsDistinct

=============================================================================
